---- MODULE Spec2Model ----
(***************************************************************************)
(* A state-machine model of pos-license-server: the outbox worker          *)
(* (src/worker.py) and the payment / issuance / activation handlers        *)
(* (src/main.py) over the shared relational store.                         *)
(*                                                                         *)
(* The store is PostgreSQL under its default isolation (READ COMMITTED):   *)
(* every statement sees what was committed when it runs, a transaction's   *)
(* writes become visible at its commit, and row locks taken by SELECT ...  *)
(* FOR UPDATE are held until the transaction that took them ends.          *)
(***************************************************************************)
EXTENDS Integers, Sequences, FiniteSets, TLC

(***************************************************************************)
(* Bounds of the model.                                                    *)
(***************************************************************************)
NumWorkers == 2
NumMsgs == 2
MaxCrashes == 1
NumClients == 2
NumKeys == 2
NumRefs == 1
NumLicenses == 1
MaxRequests == 3

\* src/worker.py:22  MAX_ATTEMPTS = int(os.getenv("MAX_ATTEMPTS", 5))
MAX_ATTEMPTS == 5

Workers == 1..NumWorkers

\* Python's None / SQL NULL: for a string, a key or reference, a timestamp;
\* and the absence of a row lock.
NONE == "NONE"
NoKey == 0
NoTime == -1
NoLock == 0

VARIABLES
    messages,       \* table sms_messages, in created_at order; id = position
    wpc,            \* each worker's position in process_all_messages
    rows,           \* each worker's `rows`: the ids its SELECT returned
    idx,            \* each worker's position in `for row in rows`
    try_count,      \* each worker's `try_count`
    processed_ids,  \* each worker's `processed_ids` (the value it returns)
    has_returned,   \* whether the worker has returned from a call
    crashes,        \* worker processes killed so far
    sender_calls,   \* per message id: invocations of send_email so far
    sender_ok,      \* per message id: successful send_email calls so far
    reached,        \* per message id: the terminal statuses ever recorded
    always_fails,   \* the message ids whose delivery always fails
    orders,         \* table orders; id = position
    licenses,       \* table licenses; id = position
    activations,    \* table license_activations, in insertion order
    payments,       \* table payments (Payment): reference -> status, NONE = no row
    now,            \* the store's clock (now(), datetime.utcnow())
    pc,             \* each API request slot's position in its handler
    req,            \* the request a slot is handling, with the handler's locals
    resp,           \* the last response a slot returned
    returned,       \* (entry point, provider, reference, license key) handed to a caller so far
    serial,         \* whether the server takes one request at a time
    arrived,        \* requests received so far
    payload_dict,   \* the payload dict given to create_signed_license
    license_text,   \* a license text in a client's hands
    altered,        \* what happened to the text since it was signed
    extracted,      \* what verify_and_extract_license made of the text
    cpc             \* the position of the text's handling

workervars == <<wpc, rows, idx, try_count, processed_ids, has_returned, crashes>>
outboxvars == <<messages, sender_calls, sender_ok, reached, always_fails>>
dbvars == <<orders, licenses, activations, payments>>
clientvars == <<pc, req, resp, returned>>
timevars == <<now, serial, arrived>>
apivars == <<dbvars, clientvars, timevars>>
codecvars == <<payload_dict, license_text, altered, extracted, cpc>>

vars == <<workervars, outboxvars, dbvars, clientvars, timevars, codecvars>>

Methods == {"email", "sms"}
Terminal == {"sent", "failed"}

(***************************************************************************)
(* The outbox as webhook_payment leaves it: rows with status 'queued',     *)
(* attempts 0, not locked.                                                 *)
(***************************************************************************)
QueuedRow(method, lid) ==
    [method |-> method, license_id |-> lid, status |-> "queued",
     attempts |-> 0, lock |-> NoLock]

MsgIds == 1..Len(messages)

\* WHERE status='queued' AND method='email' ... FOR UPDATE SKIP LOCKED
Selectable(id) ==
    /\ messages[id].status = "queued"
    /\ messages[id].method = "email"
    /\ messages[id].lock = NoLock

RECURSIVE SelectFrom(_)
\* The selectable ids from `from` on, in created_at order (ORDER BY created_at).
SelectFrom(from) ==
    IF from > Len(messages) THEN <<>>
    ELSE IF Selectable(from) THEN <<from>> \o SelectFrom(from + 1)
    ELSE SelectFrom(from + 1)

SelectQueuedSkipLocked == SelectFrom(1)

\* The end of a transaction of worker w releases every row lock it holds.
ReleaseLocks(tbl, w) ==
    [i \in 1..Len(tbl) |->
        IF tbl[i].lock = w THEN [tbl[i] EXCEPT !.lock = NoLock] ELSE tbl[i]]

RangeOf(s) == {s[i] : i \in 1..Len(s)}

CurrentRow(w) == rows[w][idx[w]]

\* send_email's result for a row: (True, ..) or (False, ..).
SenderResults(id) == IF id \in always_fails THEN {FALSE} ELSE BOOLEAN

(***************************************************************************)
(* process_all_messages, src/worker.py:96-161                              *)
(***************************************************************************)

\* lines 98-112: the locked dequeue; an empty result returns [].
PAM_Select(w) ==
    /\ wpc[w] = "idle"
    /\ LET sel == SelectQueuedSkipLocked IN
       IF sel = <<>>
       THEN /\ has_returned' = [has_returned EXCEPT ![w] = TRUE]
            /\ processed_ids' = [processed_ids EXCEPT ![w] = <<>>]
            /\ UNCHANGED <<messages, wpc, rows, idx>>
       ELSE /\ messages' = [i \in MsgIds |->
                               IF i \in RangeOf(sel)
                               THEN [messages[i] EXCEPT !.lock = w]
                               ELSE messages[i]]
            /\ rows' = [rows EXCEPT ![w] = sel]
            /\ idx' = [idx EXCEPT ![w] = 1]
            /\ wpc' = [wpc EXCEPT ![w] = "mark"]
            /\ processed_ids' = [processed_ids EXCEPT ![w] = <<>>]
            /\ UNCHANGED has_returned
    /\ UNCHANGED <<try_count, crashes, sender_calls, sender_ok, reached, always_fails>>
    /\ UNCHANGED <<apivars, codecvars>>

\* An UPDATE ... WHERE id=:id waits while another transaction holds the row lock.
CanUpdate(w, id) == messages[id].lock \in {NoLock, w}

\* lines 118-128: UPDATE status='sending', attempts=attempts+1; commit.
\* The commit ends the transaction that took the FOR UPDATE locks.
PAM_Mark(w) ==
    /\ wpc[w] = "mark"
    /\ CanUpdate(w, CurrentRow(w))
    /\ messages' = ReleaseLocks(
           [messages EXCEPT ![CurrentRow(w)] =
               [@ EXCEPT !.status = "sending", !.attempts = @ + 1]], w)
    /\ try_count' = [try_count EXCEPT ![w] = 0]
    /\ wpc' = [wpc EXCEPT ![w] = IF 0 < MAX_ATTEMPTS THEN "send" ELSE "record_failed"]
    /\ UNCHANGED <<rows, idx, processed_ids, has_returned, crashes,
                   sender_calls, sender_ok, reached, always_fails>>
    /\ UNCHANGED <<apivars, codecvars>>

\* A retry loop that takes the last failed send_email call for a delivery.
PAM_Send_IgnoresResult(w) ==
    /\ wpc[w] = "send"
    /\ \E ok \in SenderResults(CurrentRow(w)) :
        /\ sender_calls' = [sender_calls EXCEPT ![CurrentRow(w)] = @ + 1]
        /\ IF ok
           THEN /\ wpc' = [wpc EXCEPT ![w] = "record_sent"]
                /\ sender_ok' = [sender_ok EXCEPT ![CurrentRow(w)] = @ + 1]
                /\ UNCHANGED try_count
           ELSE /\ try_count' = [try_count EXCEPT ![w] = @ + 1]
                /\ wpc' = [wpc EXCEPT ![w] =
                              IF try_count[w] + 1 < MAX_ATTEMPTS
                              THEN "send" ELSE "record_sent"]
                /\ UNCHANGED sender_ok
    /\ UNCHANGED <<messages, rows, idx, processed_ids, has_returned, crashes,
                   reached, always_fails>>
    /\ UNCHANGED <<apivars, codecvars>>

\* lines 130-147: one turn of the in-process retry loop: a send_email call.
PAM_Send(w) ==
    /\ wpc[w] = "send"
    /\ \E ok \in SenderResults(CurrentRow(w)) :
        /\ sender_calls' = [sender_calls EXCEPT ![CurrentRow(w)] = @ + 1]
        /\ IF ok
           THEN /\ wpc' = [wpc EXCEPT ![w] = "record_sent"]
                /\ sender_ok' = [sender_ok EXCEPT ![CurrentRow(w)] = @ + 1]
                /\ UNCHANGED try_count
           ELSE /\ try_count' = [try_count EXCEPT ![w] = @ + 1]
                /\ wpc' = [wpc EXCEPT ![w] =
                              IF try_count[w] + 1 < MAX_ATTEMPTS
                              THEN "send" ELSE "record_failed"]
                /\ UNCHANGED sender_ok
    /\ UNCHANGED <<messages, rows, idx, processed_ids, has_returned, crashes,
                   reached, always_fails>>
    /\ UNCHANGED <<apivars, codecvars>>

\* The end of one turn of `for row in rows`; lines 158-161 after the last.
NextRow(w) ==
    IF idx[w] < Len(rows[w])
    THEN /\ idx' = [idx EXCEPT ![w] = @ + 1]
         /\ wpc' = [wpc EXCEPT ![w] = "mark"]
         /\ UNCHANGED <<rows, has_returned>>
    ELSE /\ idx' = [idx EXCEPT ![w] = 0]
         /\ rows' = [rows EXCEPT ![w] = <<>>]
         /\ wpc' = [wpc EXCEPT ![w] = "idle"]
         /\ has_returned' = [has_returned EXCEPT ![w] = TRUE]

\* lines 135-142: UPDATE status='sent'; commit; processed_ids.append.
PAM_RecordSent(w) ==
    /\ wpc[w] = "record_sent"
    /\ CanUpdate(w, CurrentRow(w))
    /\ messages' = [messages EXCEPT ![CurrentRow(w)].status = "sent"]
    /\ reached' = [reached EXCEPT ![CurrentRow(w)] = @ \cup {"sent"}]
    /\ processed_ids' = [processed_ids EXCEPT ![w] = Append(@, CurrentRow(w))]
    /\ try_count' = [try_count EXCEPT ![w] = 0]
    /\ NextRow(w)
    /\ UNCHANGED <<crashes, sender_calls, sender_ok, always_fails>>
    /\ UNCHANGED <<apivars, codecvars>>

\* lines 149-156: UPDATE status='failed'; commit.
PAM_RecordFailed(w) ==
    /\ wpc[w] = "record_failed"
    /\ CanUpdate(w, CurrentRow(w))
    /\ messages' = [messages EXCEPT ![CurrentRow(w)].status = "failed"]
    /\ reached' = [reached EXCEPT ![CurrentRow(w)] = @ \cup {"failed"}]
    /\ try_count' = [try_count EXCEPT ![w] = 0]
    /\ NextRow(w)
    /\ UNCHANGED <<processed_ids, crashes, sender_calls, sender_ok, always_fails>>
    /\ UNCHANGED <<apivars, codecvars>>

WorkerStep(w) ==
    \/ PAM_Select(w)
    \/ PAM_Mark(w)
    \/ PAM_Send(w)
    \/ PAM_RecordSent(w)
    \/ PAM_RecordFailed(w)

\* The worker process dies inside process_all_messages and is started again:
\* its open transaction is rolled back (the locks go), its locals are lost.
WorkerCrash(w) ==
    /\ wpc[w] # "idle"
    /\ crashes < MaxCrashes
    /\ crashes' = crashes + 1
    /\ messages' = ReleaseLocks(messages, w)
    /\ wpc' = [wpc EXCEPT ![w] = "idle"]
    /\ rows' = [rows EXCEPT ![w] = <<>>]
    /\ idx' = [idx EXCEPT ![w] = 0]
    /\ try_count' = [try_count EXCEPT ![w] = 0]
    /\ processed_ids' = [processed_ids EXCEPT ![w] = <<>>]
    /\ UNCHANGED <<has_returned, sender_calls, sender_ok, reached, always_fails>>
    /\ UNCHANGED <<apivars, codecvars>>

(***************************************************************************)
(* The API handlers of src/main.py.  A request slot runs one handler at a  *)
(* time; a handler is cut at the statements whose view of the store can    *)
(* differ: each SELECT, and each commit.                                   *)
(***************************************************************************)
Clients == 1..NumClients
Keys == 1..NumKeys              \* what generate_license_key can return
Refs == 1..NumRefs              \* provider-assigned references
Providers == {"paynow", "paypal"}
\* terminal_id is any str, the empty one included
Terminals == {"", "T1", "T2"}
Statuses == {"active", "revoked", "expired"}

NoReq == [op |-> "none"]
NoResp == [op |-> "none", code |-> 0, detail |-> "", key |-> NoKey]

\* A response: the HTTP status, the detail / message, and the license key it
\* carries (bare, or inside a signed license), NoKey when it carries none.
Response(op, code, detail, key) ==
    [op |-> op, code |-> code, detail |-> detail, key |-> key]

\* `if x:` on an optional string
Truthy(x) == x # NONE /\ x # ""

OrderRow(prov, poid) == [provider |-> prov, provider_order_id |-> poid]

\* A licenses row inserted as already activated.
LicenseRow_Activated(k, oid) ==
    [license_key |-> k, order_id |-> oid, status |-> "active",
     activated |-> TRUE, expires_at |-> NoTime]

\* INSERT INTO licenses (license_key, product_sku, order_id, ...): status,
\* activated and expires_at take the column defaults.
LicenseRow(k, oid) ==
    [license_key |-> k, order_id |-> oid, status |-> "active",
     activated |-> FALSE, expires_at |-> NoTime]

LicenseIds == 1..Len(licenses)
OrderIds == 1..Len(orders)

\* SELECT ... FROM licenses WHERE license_key = :k  (.first())
LicensesByKey(k) == {l \in LicenseIds : licenses[l].license_key = k}

\* A status test that lets 'revoked' through.
StatusRejected_ExpiredOnly(status) == status = "expired"

\* status in ("revoked", "expired")
StatusRejected(status) == status \in {"revoked", "expired"}

\* An expiry test that takes a license without expires_at for expired.
Expired_NoneIsPast(expires_at) == expires_at = NoTime \/ expires_at < now

\* expires_at and expires_at < datetime.utcnow()
Expired(expires_at) == expires_at # NoTime /\ expires_at < now

ActivationsOf(lid) ==
    {a \in 1..Len(activations) : activations[a].license_id = lid}

\* _get_last_activation_terminal: ORDER BY activated_at DESC LIMIT 1
LastActivationTerminals(lid) ==
    IF ActivationsOf(lid) = {} THEN {NONE}
    ELSE {activations[a].terminal_id :
            a \in {b \in ActivationsOf(lid) :
                     \A c \in ActivationsOf(lid) :
                        activations[c].activated_at <= activations[b].activated_at}}

(***************************************************************************)
(* Signed licenses.  A token is described by what each decoding step of    *)
(* activate_license makes of it.                                           *)
(***************************************************************************)
Token(env_ok, sig_ok, payload_ok, k) ==
    [env_ok |-> env_ok, sig_ok |-> sig_ok, payload_ok |-> payload_ok,
     license_key |-> k]

\* create_signed_license of a payload with this license_key
create_signed_license(k) == Token(TRUE, TRUE, TRUE, k)

\* What a client can present: a license signed by this server, the bare
\* key string (not a base64 JSON envelope), an envelope whose signature
\* does not verify.
TokenInputs ==
    {create_signed_license(k) : k \in Keys}
    \cup {Token(FALSE, FALSE, FALSE, k) : k \in Keys}
    \cup {Token(TRUE, FALSE, TRUE, k) : k \in Keys}

\* activate_license steps 1-3 and the license_key test; "" when all pass.
DecodeError(tok) ==
    IF ~tok.env_ok THEN "Invalid license format"
    ELSE IF ~tok.sig_ok THEN "License signature invalid"
    ELSE IF ~tok.payload_ok THEN "Invalid license payload"
    ELSE IF tok.license_key = NoKey THEN "License payload missing license_key"
    ELSE ""

\* A request arrives at an idle slot.
Arrives(c) ==
    /\ pc[c] = "idle"
    /\ arrived < MaxRequests
    /\ serial => \A d \in Clients : pc[d] = "idle"
    /\ arrived' = arrived + 1
    /\ UNCHANGED <<now, serial>>

\* The handler returns (or raises the HTTPException) r.
Respond(c, r) ==
    /\ resp' = [resp EXCEPT ![c] = r]
    /\ pc' = [pc EXCEPT ![c] = "idle"]
    /\ req' = [req EXCEPT ![c] = NoReq]

Goto(c, label) == pc' = [pc EXCEPT ![c] = label]

(***************************************************************************)
(* activate_license, src/main.py:693-803                                   *)
(***************************************************************************)

\* POST /licenses/activate with an ActivationRequest (license, terminal_id).
Activate_Request(c) ==
    /\ Arrives(c)
    /\ \E tok \in TokenInputs, tid \in Terminals :
        req' = [req EXCEPT ![c] =
                   [op |-> "activate", license |-> tok, terminal_id |-> tid,
                    license_id |-> 0, activated |-> FALSE, started_at |-> NoTime]]
    /\ Goto(c, "act_fetch")
    /\ UNCHANGED <<dbvars, resp, returned>>
    /\ UNCHANGED <<workervars, outboxvars, codecvars>>

\* The conflict test of line 760.
TerminalConflict(activated, last_terminal, terminal_id) ==
    activated /\ Truthy(last_terminal) /\ last_terminal # terminal_id

\* lines 700-753: decode and verify the license, SELECT the licenses row,
\* test status and expiry.  The SELECT opens the transaction: now() of the
\* later INSERT is this moment.
Activate_Fetch(c) ==
    /\ pc[c] = "act_fetch"
    /\ now' = now + 1
    /\ LET tok == req[c].license IN
       IF DecodeError(tok) # ""
       THEN Respond(c, Response("activate", 400, DecodeError(tok), NoKey))
       ELSE IF LicensesByKey(tok.license_key) = {}
       THEN Respond(c, Response("activate", 404, "License not found", NoKey))
       ELSE \E lid \in LicensesByKey(tok.license_key) :
            IF StatusRejected(licenses[lid].status)
            THEN Respond(c, Response("activate", 400, "License is not valid", NoKey))
            ELSE IF Expired(licenses[lid].expires_at)
            THEN Respond(c, Response("activate", 400, "License expired", NoKey))
            ELSE /\ Goto(c, "act_last")
                 /\ req' = [req EXCEPT ![c].license_id = lid,
                                       ![c].activated = licenses[lid].activated,
                                       ![c].started_at = now]
                 /\ UNCHANGED resp
    /\ UNCHANGED <<dbvars, returned, serial, arrived>>
    /\ UNCHANGED <<workervars, outboxvars, codecvars>>

\* The activation step with the INSERT ahead of the conflict test.
Activate_Last_InsertFirst(c) ==
    /\ pc[c] = "act_last"
    /\ activations' = Append(activations,
           [license_id |-> req[c].license_id, terminal_id |-> req[c].terminal_id,
            activated_at |-> req[c].started_at])
    /\ \E last_terminal \in LastActivationTerminals(req[c].license_id) :
        IF TerminalConflict(req[c].activated, last_terminal, req[c].terminal_id)
        THEN Respond(c, Response("activate", 400,
                         "License already activated on another terminal", NoKey))
        ELSE /\ Goto(c, "act_write")
             /\ UNCHANGED <<req, resp>>
    /\ UNCHANGED <<orders, licenses, payments, returned, timevars>>
    /\ UNCHANGED <<workervars, outboxvars, codecvars>>

\* lines 758-764: read the last terminal; reject another terminal.
Activate_Last(c) ==
    /\ pc[c] = "act_last"
    /\ \E last_terminal \in LastActivationTerminals(req[c].license_id) :
        IF TerminalConflict(req[c].activated, last_terminal, req[c].terminal_id)
        THEN Respond(c, Response("activate", 400,
                         "License already activated on another terminal", NoKey))
        ELSE /\ Goto(c, "act_write")
             /\ UNCHANGED <<req, resp>>
    /\ UNCHANGED <<dbvars, returned, timevars>>
    /\ UNCHANGED <<workervars, outboxvars, codecvars>>

\* A write that INSERTs the activation and leaves the license as it is.
Activate_Write_NoFlag(c) ==
    /\ pc[c] = "act_write"
    /\ activations' = Append(activations,
           [license_id |-> req[c].license_id, terminal_id |-> req[c].terminal_id,
            activated_at |-> req[c].started_at])
    /\ Respond(c, Response("activate", 200, "ok", req[c].license.license_key))
    /\ UNCHANGED <<orders, licenses, payments, returned, timevars>>
    /\ UNCHANGED <<workervars, outboxvars, codecvars>>

\* lines 766-795: INSERT the activation, UPDATE the license, commit, and
\* return a license signed for this terminal.
Activate_Write(c) ==
    /\ pc[c] = "act_write"
    /\ activations' = Append(activations,
           [license_id |-> req[c].license_id, terminal_id |-> req[c].terminal_id,
            activated_at |-> req[c].started_at])
    /\ licenses' = [licenses EXCEPT ![req[c].license_id].activated = TRUE]
    /\ Respond(c, Response("activate", 200, "ok", req[c].license.license_key))
    /\ UNCHANGED <<orders, payments, returned, timevars>>
    /\ UNCHANGED <<workervars, outboxvars, codecvars>>

(***************************************************************************)
(* verify_license, src/main.py:912-964                                     *)
(***************************************************************************)

\* GET /licenses/verify/{license_key}?terminal_id=
Verify_Request(c) ==
    /\ Arrives(c)
    /\ \E k \in Keys, tid \in Terminals \cup {NONE} :
        req' = [req EXCEPT ![c] =
                   [op |-> "verify", license_key |-> k, terminal_id |-> tid,
                    license_id |-> 0]]
    /\ Goto(c, "ver_fetch")
    /\ UNCHANGED <<dbvars, resp, returned>>
    /\ UNCHANGED <<workervars, outboxvars, codecvars>>

\* lines 919-943, and 951-957 when no terminal is checked.
Verify_Fetch(c) ==
    /\ pc[c] = "ver_fetch"
    /\ LET k == req[c].license_key IN
       IF LicensesByKey(k) = {}
       THEN Respond(c, Response("verify", 404, "License not found", NoKey))
       ELSE \E lid \in LicensesByKey(k) :
            IF StatusRejected(licenses[lid].status)
            THEN Respond(c, Response("verify", 400, "License revoked or expired", NoKey))
            ELSE IF Expired(licenses[lid].expires_at)
            THEN Respond(c, Response("verify", 400, "License expired", NoKey))
            ELSE IF Truthy(req[c].terminal_id)
            THEN /\ Goto(c, "ver_last")
                 /\ req' = [req EXCEPT ![c].license_id = lid]
                 /\ UNCHANGED resp
            ELSE Respond(c, Response("verify", 200, "ok", NoKey))
    /\ UNCHANGED <<dbvars, returned, timevars>>
    /\ UNCHANGED <<workervars, outboxvars, codecvars>>

\* A terminal check that records the terminal it was asked about.
Verify_Last_Records(c) ==
    /\ pc[c] = "ver_last"
    /\ activations' = Append(activations,
           [license_id |-> req[c].license_id, terminal_id |-> req[c].terminal_id,
            activated_at |-> now])
    /\ Respond(c, Response("verify", 200, "ok", NoKey))
    /\ UNCHANGED <<orders, licenses, payments, returned, timevars>>
    /\ UNCHANGED <<workervars, outboxvars, codecvars>>

\* lines 944-957: the optional terminal check.
Verify_Last(c) ==
    /\ pc[c] = "ver_last"
    /\ \E last_terminal \in LastActivationTerminals(req[c].license_id) :
        IF Truthy(last_terminal) /\ last_terminal # req[c].terminal_id
        THEN Respond(c, Response("verify", 400,
                         "License is bound to a different terminal", NoKey))
        ELSE Respond(c, Response("verify", 200, "ok", NoKey))
    /\ UNCHANGED <<dbvars, returned, timevars>>
    /\ UNCHANGED <<workervars, outboxvars, codecvars>>

(***************************************************************************)
(* start_paynow_payment, src/main.py:336-378: stores the Payment row that  *)
(* paynow_check_status later reads.  payments.provider_order_id is unique. *)
(***************************************************************************)
StartPaynow(c) ==
    /\ Arrives(c)
    /\ \E ref \in Refs :
        IF payments[ref] # NONE
        THEN /\ Respond(c, Response("start_paynow", 500, "error", NoKey))
             /\ UNCHANGED payments
        ELSE /\ payments' = [payments EXCEPT ![ref] = "pending"]
             /\ Respond(c, Response("start_paynow", 200, "ok", NoKey))
    /\ UNCHANGED <<orders, licenses, activations, returned>>
    /\ UNCHANGED <<workervars, outboxvars, codecvars>>

(***************************************************************************)
(* check_payment, src/main.py:388-534, with issue_license_for_order,       *)
(* src/main.py:181-221                                                     *)
(***************************************************************************)

\* An idempotency SELECT that finds nothing.
ExistingLicenseKeys_None(prov, ref) == {}

\* issue_license_for_order's idempotency SELECT (lines 183-188): the keys of
\* the licenses joined to an order of this provider and reference.
ExistingLicenseKeys(prov, ref) ==
    {licenses[l].license_key :
        l \in {m \in LicenseIds :
                 /\ licenses[m].order_id \in OrderIds
                 /\ orders[licenses[m].order_id].provider = prov
                 /\ orders[licenses[m].order_id].provider_order_id = ref}}

\* What the provider reports, as check_payment normalizes it.
ProviderStatuses == {"paid", "pending", "failed"}

\* A test that takes every status for a paid one.
IsPaid_Any(status) == TRUE

\* `if status != "paid"` (line 431; for PayPal the COMPLETED tests of 478-487)
IsPaid(status) == status = "paid"

\* POST /payment/check with a PaymentCheckRequest (provider, reference).
\* customer_email and customer_phone say whether the `email` and `phone` that
\* lines 441-442 hand to issue_license_for_order are set.
CheckPayment_Request(c) ==
    /\ Arrives(c)
    /\ \E prov \in Providers, ref \in Refs, email \in BOOLEAN, phone \in BOOLEAN :
        req' = [req EXCEPT ![c] =
                   [op |-> "check_payment", provider |-> prov, reference |-> ref,
                    customer_email |-> email, customer_phone |-> phone,
                    status |-> NONE, license_key |-> NoKey]]
    /\ Goto(c, "cp_status")
    /\ UNCHANGED <<dbvars, resp, returned>>
    /\ UNCHANGED <<workervars, outboxvars, codecvars>>

\* lines 393-432 / 463-490: ask the provider; not paid returns ok=False.
\* lines 434-443 / 492-500 with 183-199: paid calls issue_license_for_order,
\* which returns the existing key or INSERTs the order.
CheckPayment_Status(c) ==
    /\ pc[c] = "cp_status"
    /\ LET prov == req[c].provider
           ref == req[c].reference IN
       \E status \in ProviderStatuses :
        IF prov = "paynow" /\ payments[ref] = NONE
        THEN /\ Respond(c, Response("check_payment", 500, "paynow_check_status error", NoKey))
             /\ UNCHANGED <<payments, returned>>
        ELSE /\ payments' = IF prov = "paynow"
                            THEN [payments EXCEPT ![ref] = status] ELSE payments
             /\ IF ~IsPaid(status)
                THEN /\ Respond(c, Response("check_payment", 200, status, NoKey))
                     /\ UNCHANGED returned
                ELSE IF ExistingLicenseKeys(prov, ref) # {}
                THEN \E k \in ExistingLicenseKeys(prov, ref) :
                        /\ Respond(c, Response("check_payment", 200, "paid", k))
                        /\ returned' = returned \cup {<<"check_payment", prov, ref, k>>}
                ELSE /\ Goto(c, "ilo_key")
                     /\ req' = [req EXCEPT ![c].status = status]
                     /\ UNCHANGED <<resp, returned>>
    /\ UNCHANGED <<orders, licenses, activations, timevars>>
    /\ UNCHANGED <<workervars, outboxvars, codecvars>>

\* lines 201-207: one turn of the generate-and-check loop.
ILO_GenKey(c) ==
    /\ pc[c] = "ilo_key"
    /\ \E k \in Keys :
        IF LicensesByKey(k) # {}
        THEN UNCHANGED <<pc, req>>
        ELSE /\ Goto(c, "ilo_commit")
             /\ req' = [req EXCEPT ![c].license_key = k]
    /\ UNCHANGED <<dbvars, resp, returned, timevars>>
    /\ UNCHANGED <<workervars, outboxvars, codecvars>>

\* lines 209-221 and 444-458: INSERT the license, commit (the order and the
\* license become visible together), sign and return the license.
ILO_Commit(c) ==
    /\ pc[c] = "ilo_commit"
    /\ orders' = Append(orders, OrderRow(req[c].provider, req[c].reference))
    /\ licenses' = Append(licenses, LicenseRow(req[c].license_key, Len(orders) + 1))
    /\ returned' = returned \cup
          {<<"check_payment", req[c].provider, req[c].reference, req[c].license_key>>}
    /\ Respond(c, Response("check_payment", 200, "paid", req[c].license_key))
    /\ UNCHANGED <<activations, payments, timevars>>
    /\ UNCHANGED <<workervars, outboxvars, codecvars>>

(***************************************************************************)
(* webhook_payment, src/main.py:599-684                                    *)
(***************************************************************************)

\* SELECT id FROM orders WHERE provider_order_id = :po
OrdersByReference(ref) == {o \in OrderIds : orders[o].provider_order_id = ref}

\* POST /webhook/payment with a PaymentWebhook: a paid notification.
Webhook_Request(c) ==
    /\ Arrives(c)
    /\ \E prov \in Providers, ref \in Refs, email \in BOOLEAN, phone \in BOOLEAN :
        req' = [req EXCEPT ![c] =
                   [op |-> "webhook", provider |-> prov, reference |-> ref,
                    customer_email |-> email, customer_phone |-> phone,
                    order_id |-> 0, license_key |-> NoKey, license_id |-> 0]]
    /\ Goto(c, "wh_check")
    /\ UNCHANGED <<dbvars, resp, returned>>
    /\ UNCHANGED <<workervars, outboxvars, codecvars>>

\* lines 606-612: the idempotency test.
Webhook_Check(c) ==
    /\ pc[c] = "wh_check"
    /\ IF OrdersByReference(req[c].reference) # {}
       THEN Respond(c, Response("webhook", 200, "Already processed", NoKey))
       ELSE /\ Goto(c, "wh_order")
            /\ UNCHANGED <<req, resp>>
    /\ UNCHANGED <<dbvars, returned, timevars>>
    /\ UNCHANGED <<workervars, outboxvars, codecvars>>

\* lines 614-629: INSERT the order; commit.
Webhook_InsertOrder(c) ==
    /\ pc[c] = "wh_order"
    /\ orders' = Append(orders, OrderRow(req[c].provider, req[c].reference))
    /\ req' = [req EXCEPT ![c].order_id = Len(orders) + 1]
    /\ Goto(c, "wh_key")
    /\ UNCHANGED <<licenses, activations, payments, resp, returned, timevars>>
    /\ UNCHANGED <<workervars, outboxvars, codecvars>>

\* lines 631-641: one turn of the generate-and-check loop.
Webhook_GenKey(c) ==
    /\ pc[c] = "wh_key"
    /\ \E k \in Keys :
        IF LicensesByKey(k) # {}
        THEN UNCHANGED <<pc, req>>
        ELSE /\ Goto(c, "wh_license")
             /\ req' = [req EXCEPT ![c].license_key = k]
    /\ UNCHANGED <<dbvars, resp, returned, timevars>>
    /\ UNCHANGED <<workervars, outboxvars, codecvars>>

\* lines 643-658: INSERT the license; commit.
Webhook_InsertLicense(c) ==
    /\ pc[c] = "wh_license"
    /\ licenses' = Append(licenses, LicenseRow(req[c].license_key, req[c].order_id))
    /\ req' = [req EXCEPT ![c].license_id = Len(licenses) + 1]
    /\ Goto(c, "wh_msgs")
    /\ UNCHANGED <<orders, activations, payments, resp, returned, timevars>>
    /\ UNCHANGED <<workervars, outboxvars, codecvars>>

\* The rows lines 662-671 insert: the sms row, then the email row.
QueuedFor(r) ==
    (IF r.customer_phone THEN <<QueuedRow("sms", r.license_id)>> ELSE <<>>)
    \o (IF r.customer_email THEN <<QueuedRow("email", r.license_id)>> ELSE <<>>)

\* lines 660-678: queue the messages; commit; return the bare license key.
\* (The background task it adds is a run of process_all_messages.)
Webhook_Queue(c) ==
    /\ pc[c] = "wh_msgs"
    /\ messages' = messages \o QueuedFor(req[c])
    /\ sender_calls' = sender_calls \o [i \in 1..Len(QueuedFor(req[c])) |-> 0]
    /\ sender_ok' = sender_ok \o [i \in 1..Len(QueuedFor(req[c])) |-> 0]
    /\ reached' = reached \o [i \in 1..Len(QueuedFor(req[c])) |-> {}]
    /\ returned' = returned \cup
          {<<"webhook", req[c].provider, req[c].reference, req[c].license_key>>}
    /\ Respond(c, Response("webhook", 200, "ok", req[c].license_key))
    /\ UNCHANGED <<dbvars, always_fails, timevars>>
    /\ UNCHANGED <<workervars, codecvars>>

\* lines 680-682: a statement of lines 614-675 raises (the store refuses the
\* INSERT, the connection is lost): what is not committed is rolled back
\* and the request is answered 500.
Webhook_Fails(c) ==
    /\ pc[c] \in {"wh_order", "wh_key", "wh_license", "wh_msgs"}
    /\ Respond(c, Response("webhook", 500, "error", NoKey))
    /\ UNCHANGED <<dbvars, returned, timevars>>
    /\ UNCHANGED <<workervars, outboxvars, codecvars>>

(***************************************************************************)
(* The signed-license codec, src/main.py:76-108 and 223-244.  Texts and    *)
(* byte strings are sequences of character codes.                          *)
(***************************************************************************)

\* What a decoding step gives: the value, or the exception it raised.
Ok(v) == [ok |-> TRUE, val |-> v]
Raised == [ok |-> FALSE, val |-> <<>>]

\* The base64 alphabet: A-Z a-z 0-9 + /
B64Char(i) ==
    IF i < 26 THEN 65 + i
    ELSE IF i < 52 THEN 97 + (i - 26)
    ELSE IF i < 62 THEN 48 + (i - 52)
    ELSE IF i = 62 THEN 43 ELSE 47

\* binascii's table_a2b_base64: the 6-bit value of a character, -1 for a
\* character outside the alphabet.
B64Index(ch) ==
    IF ch >= 65 /\ ch <= 90 THEN ch - 65
    ELSE IF ch >= 97 /\ ch <= 122 THEN ch - 97 + 26
    ELSE IF ch >= 48 /\ ch <= 57 THEN ch - 48 + 52
    ELSE IF ch = 43 THEN 62
    ELSE IF ch = 47 THEN 63
    ELSE -1

B64Pad == 61

\* base64.b64encode: every 3 bytes give 4 characters, the last quantum is
\* filled with zero bits and '='.
b64encode(bs) ==
    LET n == Len(bs)
        byte(k) == IF k <= n THEN bs[k] ELSE 0
    IN [j \in 1..(4 * ((n + 2) \div 3)) |->
            LET g == 3 * ((j - 1) \div 4)
                r == (j - 1) % 4
            IN IF r = 0 THEN B64Char(byte(g + 1) \div 4)
               ELSE IF r = 1
               THEN B64Char((byte(g + 1) % 4) * 16 + byte(g + 2) \div 16)
               ELSE IF r = 2
               THEN (IF g + 2 > n THEN B64Pad
                     ELSE B64Char((byte(g + 2) % 16) * 4 + byte(g + 3) \div 64))
               ELSE (IF g + 3 > n THEN B64Pad ELSE B64Char(byte(g + 3) % 64))]

IsB64(ch) == B64Index(ch) >= 0

\* binascii.a2b_base64 in its default (non-strict) mode.  Characters outside
\* the alphabet are skipped.  quad_pos is the number of alphabet characters
\* read in the current quantum; a '=' read at quad_pos >= 2 counts as
\* padding, and the input ends at the '=' that completes the quantum.  At
\* the end of the text an incomplete quantum raises.  The unused low bits
\* of the last character of a padded quantum are dropped.
a2b_base64(text) ==
    LET n == Len(text)
        quad_pos(i) == Cardinality({j \in 1..(i - 1) : IsB64(text[j])}) % 4
        \* the '=' at or before i since the last alphabet character
        pads(i) == Cardinality({j \in 1..i :
                       /\ text[j] = B64Pad
                       /\ \A m \in j..i : ~IsB64(text[m])})
        Ends(i) == /\ text[i] = B64Pad
                   /\ quad_pos(i) >= 2
                   /\ quad_pos(i) + pads(i) >= 4
        stops == {i \in 1..n : Ends(i)}
        last == IF stops = {} THEN n
                ELSE (CHOOSE i \in stops : \A j \in stops : i <= j) - 1
        data == SelectSeq(SubSeq(text, 1, last), IsB64)
        v(k) == B64Index(data[k])
        nbytes == 3 * (Len(data) \div 4)
                    + (IF Len(data) % 4 = 0 THEN 0 ELSE (Len(data) % 4) - 1)
    IN IF stops = {} /\ Len(data) % 4 # 0 THEN Raised
       ELSE Ok([k \in 1..nbytes |->
                  LET g == 4 * ((k - 1) \div 3)
                      r == (k - 1) % 3
                  IN IF r = 0 THEN v(g + 1) * 4 + v(g + 2) \div 16
                     ELSE IF r = 1 THEN (v(g + 2) % 16) * 16 + v(g + 3) \div 4
                     ELSE (v(g + 3) % 4) * 64 + v(g + 4)])

\* base64.b64decode(s) of a str: a non-ASCII character raises ValueError.
b64decode(text) ==
    IF \E i \in 1..Len(text) : text[i] > 127 THEN Raised
    ELSE a2b_base64(text)

\* bytes.decode(): UTF-8.  Only ASCII texts are modelled; a byte above 127
\* is taken as an undecodable one.
Utf8Decode(r) ==
    IF r.ok /\ \A i \in 1..Len(r.val) : r.val[i] <= 127 THEN r ELSE Raised


(***************************************************************************)
(* JSON, as json.dumps(..., separators=(",", ":")) writes it and           *)
(* json.loads reads it back, for flat objects of strings, integers,        *)
(* booleans and null.                                                      *)
(***************************************************************************)

\* A JSON value: a str, an int, a bool (n is 1 or 0) or None.
JStr(s) == [t |-> "str", s |-> s, n |-> 0]
JInt(n) == [t |-> "int", s |-> <<>>, n |-> n]
JBool(b) == [t |-> "bool", s |-> <<>>, n |-> IF b THEN 1 ELSE 0]
JNull == [t |-> "null", s |-> <<>>, n |-> 0]

\* The result of reading one item: the item and the position after it.
At(v, next) == [ok |-> TRUE, val |-> v, next |-> next]
NotAt == [ok |-> FALSE, val |-> JNull, next |-> 0]

RECURSIVE LexLess(_, _)
\* Python's str ordering, as sort_keys uses it.
LexLess(a, b) ==
    IF b = <<>> THEN FALSE
    ELSE IF a = <<>> THEN TRUE
    ELSE IF a[1] # b[1] THEN a[1] < b[1]
    ELSE LexLess(Tail(a), Tail(b))

RECURSIVE SortedKeys(_)
SortedKeys(ks) ==
    IF ks = {} THEN <<>>
    ELSE LET least == CHOOSE k \in ks : \A j \in ks : j = k \/ LexLess(k, j)
         IN <<least>> \o SortedKeys(ks \ {least})

RECURSIVE Digits(_)
\* str(n) of a natural number
Digits(n) == IF n < 10 THEN <<48 + n>> ELSE Digits(n \div 10) \o <<48 + (n % 10)>>

\* A JSON string body written without escapes.
Escaped_None(s) == s

RECURSIVE Escaped(_)
\* The body of a JSON string: '"' and '\' are written with a backslash.
Escaped(s) ==
    IF s = <<>> THEN <<>>
    ELSE IF Len(s) = 1 THEN (IF s[1] \in {34, 92} THEN <<92, s[1]>> ELSE s)
    ELSE Escaped(SubSeq(s, 1, Len(s) \div 2))
            \o Escaped(SubSeq(s, Len(s) \div 2 + 1, Len(s)))

Quoted(s) == <<34>> \o Escaped(s) \o <<34>>

Literal(v) ==
    IF v.t = "str" THEN Quoted(v.s)
    ELSE IF v.t = "int" THEN (IF v.n < 0 THEN <<45>> \o Digits(-v.n) ELSE Digits(v.n))
    ELSE IF v.t = "bool" THEN (IF v.n = 1 THEN <<116, 114, 117, 101>>
                                          ELSE <<102, 97, 108, 115, 101>>)
    ELSE <<110, 117, 108, 108>>

RECURSIVE Members(_, _, _)
\* "key":value of the keys from position i on, comma separated.
Members(obj, keys, i) ==
    IF i > Len(keys) THEN <<>>
    ELSE Quoted(keys[i]) \o <<58>> \o Literal(obj[keys[i]])
         \o (IF i < Len(keys) THEN <<44>> ELSE <<>>)
         \o Members(obj, keys, i + 1)

\* json.dumps(obj, separators=(",", ":")) with the keys in the given order,
\* .encode()d.
json_dumps(obj, keys) == <<123>> \o Members(obj, keys, 1) \o <<125>>

\* The number of backslashes that end right before position p, from
\* position j on.
BackslashRun(bs, j, p) ==
    Cardinality({k \in 1..(p - j) : \A m \in (p - k)..(p - 1) : bs[m] = 92})

\* The rest of a JSON string whose body starts at position j: it ends at
\* the first '"' not written with a backslash; a backslash before anything
\* but '"' or '\', and a control character, are taken as raising.
ScanString(bs, j) ==
    LET Closes(p) == bs[p] = 34 /\ BackslashRun(bs, j, p) % 2 = 0
        closers == {p \in j..Len(bs) : Closes(p)}
        close == CHOOSE p \in closers : \A q \in closers : p <= q
        Escapes(p) == bs[p] = 92 /\ BackslashRun(bs, j, p) % 2 = 0
        Kept(p) == ~Escapes(p)
        kept == SelectSeq([i \in 1..(close - j) |-> j + i - 1], Kept)
    IN IF closers = {} THEN NotAt
       ELSE IF \E p \in j..(close - 1) :
                  \/ bs[p] < 32
                  \/ Escapes(p) /\ bs[p + 1] \notin {34, 92}
       THEN NotAt
       ELSE At(JStr([i \in 1..Len(kept) |-> bs[kept[i]]]), close + 1)

RECURSIVE ScanDigits(_, _, _)
ScanDigits(bs, j, acc) ==
    IF j <= Len(bs) /\ bs[j] >= 48 /\ bs[j] <= 57
    THEN ScanDigits(bs, j + 1, acc * 10 + (bs[j] - 48))
    ELSE At(JInt(acc), j)

IsDigit(bs, j) == j <= Len(bs) /\ bs[j] >= 48 /\ bs[j] <= 57

StartsWith(bs, j, word) ==
    j + Len(word) - 1 <= Len(bs) /\ SubSeq(bs, j, j + Len(word) - 1) = word

\* One JSON value at position j.  (A leading zero is no JSON number.)
ScanValue(bs, j) ==
    IF j > Len(bs) THEN NotAt
    ELSE IF bs[j] = 34 THEN ScanString(bs, j + 1)
    ELSE IF StartsWith(bs, j, <<116, 114, 117, 101>>) THEN At(JBool(TRUE), j + 4)
    ELSE IF StartsWith(bs, j, <<102, 97, 108, 115, 101>>) THEN At(JBool(FALSE), j + 5)
    ELSE IF StartsWith(bs, j, <<110, 117, 108, 108>>) THEN At(JNull, j + 4)
    ELSE IF bs[j] = 45
    THEN IF IsDigit(bs, j + 1) /\ ~(bs[j + 1] = 48 /\ IsDigit(bs, j + 2))
         THEN LET d == ScanDigits(bs, j + 1, 0) IN At(JInt(-d.val.n), d.next)
         ELSE NotAt
    ELSE IF IsDigit(bs, j) /\ ~(bs[j] = 48 /\ IsDigit(bs, j + 1))
    THEN ScanDigits(bs, j, 0)
    ELSE NotAt

\* dict item assignment
With(obj, key, v) ==
    [k \in DOMAIN obj \cup {key} |-> IF k = key THEN v ELSE obj[k]]

RECURSIVE ScanMembers(_, _, _)
\* The members of an object from position j on, obj read so far.
ScanMembers(bs, j, obj) ==
    IF j > Len(bs) \/ bs[j] # 34 THEN Raised
    ELSE LET key == ScanString(bs, j + 1) IN
         IF ~key.ok \/ key.next > Len(bs) \/ bs[key.next] # 58 THEN Raised
         ELSE LET v == ScanValue(bs, key.next + 1) IN
              IF ~v.ok \/ v.next > Len(bs) THEN Raised
              ELSE IF bs[v.next] = 44
              THEN ScanMembers(bs, v.next + 1, With(obj, key.val.s, v.val))
              ELSE IF bs[v.next] = 125 /\ v.next = Len(bs)
              THEN Ok(With(obj, key.val.s, v.val))
              ELSE Raised

\* json.loads of a text produced by .decode(): an object in the compact
\* layout; any other text raises.
json_loads(r) ==
    IF ~r.ok \/ Len(r.val) < 2 \/ r.val[1] # 123 THEN Raised
    ELSE IF r.val = <<123, 125>> THEN Ok(<<>>)
    ELSE ScanMembers(r.val, 2, <<>>)


(***************************************************************************)
(* Signing and verification.                                               *)
(***************************************************************************)

\* "payload", "signature", "license_key"
PayloadField == <<112, 97, 121, 108, 111, 97, 100>>
SignatureField == <<115, 105, 103, 110, 97, 116, 117, 114, 101>>
LicenseKeyField == <<108, 105, 99, 101, 110, 115, 101, 95, 107, 101, 121>>

\* PRIVATE_KEY.sign(message, PKCS1v15, SHA256).  The scheme is deterministic
\* and only the holder of the private key can compute it: the signature of
\* a message is one byte string, a different one for every message.
RsaSign(message) == <<1>> \o message

\* A verification that accepts every signature.
RsaVerify_Any(signature, message) == TRUE

\* PUBLIC_KEY.verify(signature, message, PKCS1v15, SHA256) does not raise.
RsaVerify(signature, message) == signature = RsaSign(message)

\* The envelope json.dumps({"payload": .., "signature": ..}), base64 encoded.
Envelope(fields, payload_b64, signature) ==
    b64encode(json_dumps(
        [k \in {PayloadField, SignatureField} |->
            IF k = PayloadField THEN JStr(payload_b64) ELSE JStr(signature)],
        fields))

\* create_signed_license(payload): the license blob, as text.
license_blob(payload) ==
    LET payload_bytes == json_dumps(payload, SortedKeys(DOMAIN payload))
        payload_b64 == b64encode(payload_bytes)
        signature == b64encode(RsaSign(payload_b64))
    IN Envelope(<<PayloadField, SignatureField>>, payload_b64, signature)

\* verify_and_extract_license(signed_license): the payload, or the
\* HTTPException(400) every failure is turned into.
verify_and_extract_license(signed_license) ==
    LET obj == json_loads(Utf8Decode(b64decode(signed_license))) IN
    IF ~obj.ok THEN Raised
    ELSE IF ~({PayloadField, SignatureField} \subseteq DOMAIN obj.val) THEN Raised
    ELSE IF obj.val[PayloadField].t # "str" \/ obj.val[SignatureField].t # "str"
    THEN Raised
    ELSE LET payload_b64 == obj.val[PayloadField].s
             signature == b64decode(obj.val[SignatureField].s)
         IN IF ~signature.ok THEN Raised
            ELSE IF ~RsaVerify(signature.val, payload_b64) THEN Raised
            ELSE json_loads(Utf8Decode(b64decode(payload_b64)))


\* Whether the signature stored in the envelope of a text is the signature
\* of the encoded payload exactly as the envelope stores it.
SignatureVerified(text) ==
    LET obj == json_loads(Utf8Decode(b64decode(text))) IN
    /\ obj.ok
    /\ {PayloadField, SignatureField} \subseteq DOMAIN obj.val
    /\ obj.val[PayloadField].t = "str"
    /\ obj.val[SignatureField].t = "str"
    /\ b64decode(obj.val[SignatureField].s) = Ok(RsaSign(obj.val[PayloadField].s))

\* A license key is a string; the model's key k is written as its decimal
\* digits.  A string that names none of the model's keys is UnknownKey.
UnknownKey == -1
KeyText(k) == Digits(k)
KeyNumber(s) ==
    IF s # <<>> /\ (\A i \in 1..Len(s) : s[i] >= 48 /\ s[i] <= 57) /\ s[1] # 48
    THEN ScanDigits(s, 1, 0).val.n
    ELSE UnknownKey

\* payload.get("license_key"), NoKey when `not license_key`.
LicenseKeyIn(obj) ==
    IF LicenseKeyField \notin DOMAIN obj THEN NoKey
    ELSE LET v == obj[LicenseKeyField] IN
         IF v.t = "null" \/ (v.t = "str" /\ v.s = <<>>) \/ (v.t # "str" /\ v.n = 0)
         THEN NoKey
         ELSE IF v.t = "str" THEN KeyNumber(v.s) ELSE UnknownKey

\* What the decoding steps 1-3 of activate_license (lines 700-734) make of
\* a text.
TokenOf(text) ==
    LET obj == json_loads(Utf8Decode(b64decode(text)))
        env_ok == /\ obj.ok
                  /\ {PayloadField, SignatureField} \subseteq DOMAIN obj.val
                  /\ obj.val[SignatureField].t = "str"
                  /\ b64decode(obj.val[SignatureField].s).ok
        sig_ok == /\ env_ok
                  /\ obj.val[PayloadField].t = "str"
                  /\ RsaVerify(b64decode(obj.val[SignatureField].s).val,
                               obj.val[PayloadField].s)
        inner == json_loads(Utf8Decode(b64decode(obj.val[PayloadField].s)))
    IN Token(env_ok, sig_ok, sig_ok /\ inner.ok,
             IF sig_ok /\ inner.ok THEN LicenseKeyIn(inner.val) ELSE NoKey)

\* Texts that are not signed licenses of this server, made from the signed
\* license of a payload: cut short, without one of the two fields, with the
\* signature of another message, with a signature over the payload bytes
\* instead of their base64 text; and the bare license key.
Damaged(p) ==
    LET payload_bytes == json_dumps(p, SortedKeys(DOMAIN p))
        payload_b64 == b64encode(payload_bytes)
        good == license_blob(p)
    IN [truncated |-> SubSeq(good, 1, Len(good) - 1),
        no_signature |-> Envelope(<<PayloadField>>, payload_b64, <<>>),
        no_payload |-> Envelope(<<SignatureField>>, <<>>,
                                b64encode(RsaSign(payload_b64))),
        other_signature |-> Envelope(<<PayloadField, SignatureField>>, payload_b64,
                                     b64encode(RsaSign(b64encode(<<123, 125>>)))),
        signed_bytes |-> Envelope(<<PayloadField, SignatureField>>, payload_b64,
                                  b64encode(RsaSign(payload_bytes))),
        bare_key |-> KeyText(1)]

\* One bit of one character of a text changed.
FlipBit(text, i, b) ==
    [text EXCEPT ![i] = IF (@ \div 2^b) % 2 = 1 THEN @ - 2^b ELSE @ + 2^b]


(***************************************************************************)
(* A client's handling of a license text: the server signs a payload, the  *)
(* text may be altered on its way, and is given to                         *)
(* verify_and_extract_license and to POST /licenses/activate.              *)
(***************************************************************************)

\* The server signs the payload (create_signed_license, lines 76-108).
Codec_Sign ==
    /\ cpc = "compose"
    /\ license_text' = license_blob(payload_dict)
    /\ cpc' = "signed"
    /\ UNCHANGED <<payload_dict, altered, extracted>>
    /\ UNCHANGED <<workervars, outboxvars, apivars>>

\* One bit of the text changes.
Codec_FlipBit ==
    /\ cpc = "signed"
    /\ altered = "none"
    /\ \E i \in 1..Len(license_text), b \in 0..7 :
          license_text' = FlipBit(license_text, i, b)
    /\ altered' = "bit"
    /\ UNCHANGED <<payload_dict, extracted, cpc>>
    /\ UNCHANGED <<workervars, outboxvars, apivars>>

\* The text is replaced by one that is not a signed license.
Codec_Damage ==
    /\ cpc = "signed"
    /\ altered = "none"
    /\ \E kind \in DOMAIN Damaged(payload_dict) :
          /\ license_text' = Damaged(payload_dict)[kind]
          /\ altered' = kind
    /\ UNCHANGED <<payload_dict, extracted, cpc>>
    /\ UNCHANGED <<workervars, outboxvars, apivars>>

\* verify_and_extract_license(signed_license), lines 223-244.
Codec_Verify ==
    /\ cpc = "signed"
    /\ extracted' = verify_and_extract_license(license_text)
    /\ cpc' = "checked"
    /\ UNCHANGED <<payload_dict, license_text, altered>>
    /\ UNCHANGED <<workervars, outboxvars, apivars>>

\* POST /licenses/activate with the text as `license`.
Activate_Present(c) ==
    /\ cpc = "checked"
    /\ Arrives(c)
    /\ \E tid \in Terminals :
        req' = [req EXCEPT ![c] =
                   [op |-> "activate", license |-> TokenOf(license_text),
                    terminal_id |-> tid,
                    license_id |-> 0, activated |-> FALSE, started_at |-> NoTime]]
    /\ Goto(c, "act_fetch")
    /\ cpc' = "presented"
    /\ UNCHANGED <<dbvars, resp, returned>>
    /\ UNCHANGED <<payload_dict, license_text, altered, extracted>>
    /\ UNCHANGED <<workervars, outboxvars>>

(***************************************************************************)
(* Specifications.                                                         *)
(***************************************************************************)
InitWorkers ==
    /\ wpc = [w \in Workers |-> "idle"]
    /\ rows = [w \in Workers |-> <<>>]
    /\ idx = [w \in Workers |-> 0]
    /\ try_count = [w \in Workers |-> 0]
    /\ processed_ids = [w \in Workers |-> <<>>]
    /\ has_returned = [w \in Workers |-> FALSE]
    /\ crashes = 0

InitClients ==
    /\ pc = [c \in Clients |-> "idle"]
    /\ req = [c \in Clients |-> NoReq]
    /\ resp = [c \in Clients |-> NoResp]
    /\ returned = {}
    /\ now = 1
    /\ arrived = 0

\* No license text is being handled.
NoCodec ==
    /\ payload_dict = <<>>
    /\ license_text = <<>>
    /\ altered = "none"
    /\ extracted = Raised
    /\ cpc = "off"

\* The store before the first payment.
InitEmpty ==
    /\ orders = <<>>
    /\ licenses = <<>>
    /\ activations = <<>>
    /\ messages = <<>>
    /\ sender_calls = <<>>
    /\ sender_ok = <<>>
    /\ reached = <<>>
    /\ payments = [r \in Refs |-> NONE]

Init ==
    /\ InitEmpty
    /\ NoCodec
    /\ always_fails = {}
    /\ InitWorkers
    /\ InitClients
    /\ serial = FALSE

\* The same server taking one request at a time.
InitSeq ==
    /\ InitEmpty
    /\ NoCodec
    /\ always_fails = {}
    /\ InitWorkers
    /\ InitClients
    /\ serial = TRUE

\* The outbox with NumMsgs queued rows, each of a license of its own, as
\* NumMsgs webhook_payment calls leave it.
InitOutbox ==
    /\ orders = [i \in 1..NumMsgs |-> OrderRow("paynow", i)]
    /\ licenses = [i \in 1..NumMsgs |-> LicenseRow(i, i)]
    /\ activations = <<>>
    /\ payments = [r \in Refs |-> NONE]
    /\ \E ms \in [1..NumMsgs -> Methods] :
          messages = [i \in 1..NumMsgs |-> QueuedRow(ms[i], i)]
    /\ sender_calls = [i \in 1..NumMsgs |-> 0]
    /\ sender_ok = [i \in 1..NumMsgs |-> 0]
    /\ reached = [i \in 1..NumMsgs |-> {}]
    /\ always_fails \in SUBSET (1..NumMsgs)
    /\ NoCodec
    /\ InitWorkers
    /\ InitClients
    /\ serial = FALSE

\* What an administrator can have made of an issued license out of band.
ExpiryValues == {NoTime, 0, 2}

\* NumLicenses issued licenses (keys 1..NumLicenses), none activated yet.
IssuedLicenses ==
    /\ orders = [i \in 1..NumLicenses |-> OrderRow("paynow", i)]
    /\ \E st \in [1..NumLicenses -> Statuses], ex \in [1..NumLicenses -> ExpiryValues] :
          licenses = [i \in 1..NumLicenses |->
                        [LicenseRow(i, i) EXCEPT !.status = st[i], !.expires_at = ex[i]]]
    /\ activations = <<>>
    /\ messages = <<>>
    /\ sender_calls = <<>>
    /\ sender_ok = <<>>
    /\ reached = <<>>
    /\ payments = [r \in Refs |-> NONE]
    /\ always_fails = {}
    /\ NoCodec
    /\ InitWorkers
    /\ InitClients

InitActivate == IssuedLicenses /\ serial = FALSE

InitActivateSeq == IssuedLicenses /\ serial = TRUE

\* The payloads given to create_signed_license: flat dicts of JSON scalars,
\* with and without a license_key, with the characters JSON escapes.
Key_a == <<97>>
PayloadInputs ==
    {[k \in {LicenseKeyField} |-> JStr(KeyText(1))],
     [k \in {LicenseKeyField, Key_a} |->
         IF k = Key_a THEN JInt(7) ELSE JStr(KeyText(1))],
     [k \in {LicenseKeyField, Key_a} |->
         IF k = Key_a THEN JStr(<<34, 92>>) ELSE JStr(KeyText(2))],
     [k \in {LicenseKeyField, Key_a} |->
         IF k = Key_a THEN JBool(TRUE) ELSE JNull],
     [k \in {Key_a} |-> JInt(-10)]}

\* NumLicenses licenses as issuance leaves them, and a payload to sign.
InitCodec ==
    /\ orders = [i \in 1..NumLicenses |-> OrderRow("paynow", i)]
    /\ licenses = [i \in 1..NumLicenses |-> LicenseRow(i, i)]
    /\ activations = <<>>
    /\ messages = <<>>
    /\ sender_calls = <<>>
    /\ sender_ok = <<>>
    /\ reached = <<>>
    /\ payments = [r \in Refs |-> NONE]
    /\ always_fails = {}
    /\ InitWorkers
    /\ InitClients
    /\ serial = FALSE
    /\ payload_dict \in PayloadInputs
    /\ license_text = <<>>
    /\ altered = "none"
    /\ extracted = Raised
    /\ cpc = "compose"

\* An empty store, a server taking one request at a time, and the rows the
\* first notification will queue (ids 1..NumMsgs) with or without a sender
\* that fails.
InitDelivery ==
    /\ InitEmpty
    /\ always_fails \in SUBSET (1..NumMsgs)
    /\ NoCodec
    /\ InitWorkers
    /\ InitClients
    /\ serial = TRUE

NextOutbox == \E w \in Workers : WorkerStep(w)

NextOutboxCrash == \E w \in Workers : WorkerStep(w) \/ WorkerCrash(w)

NextActivate ==
    \E c \in Clients :
        \/ Activate_Request(c)
        \/ Activate_Fetch(c)
        \/ Activate_Last(c)
        \/ Activate_Write(c)
        \/ Verify_Request(c)
        \/ Verify_Fetch(c)
        \/ Verify_Last(c)

NextIssue ==
    \E c \in Clients :
        \/ StartPaynow(c)
        \/ CheckPayment_Request(c)
        \/ CheckPayment_Status(c)
        \/ ILO_GenKey(c)
        \/ ILO_Commit(c)
        \/ Webhook_Request(c)
        \/ Webhook_Check(c)
        \/ Webhook_InsertOrder(c)
        \/ Webhook_GenKey(c)
        \/ Webhook_InsertLicense(c)
        \/ Webhook_Queue(c)

NextCodec ==
    \/ Codec_Sign
    \/ Codec_FlipBit
    \/ Codec_Damage
    \/ Codec_Verify
    \/ \E c \in Clients :
        \/ Activate_Present(c)
        \/ Activate_Fetch(c)
        \/ Activate_Last(c)
        \/ Activate_Write(c)

NextDelivery ==
    \/ \E c \in Clients :
        \/ Webhook_Request(c)
        \/ Webhook_Check(c)
        \/ Webhook_InsertOrder(c)
        \/ Webhook_GenKey(c)
        \/ Webhook_InsertLicense(c)
        \/ Webhook_Queue(c)
    \/ \E w \in Workers : WorkerStep(w)

NextApi == NextIssue \/ NextActivate

NextIssueFault == NextIssue \/ \E c \in Clients : Webhook_Fails(c)

Next == NextIssue \/ NextActivate \/ NextOutbox

\* The whole server: payments, issuance, activation and the outbox workers.
Spec == Init /\ [][Next]_vars

\* K workers draining N queued rows, no crash.
SpecOutbox == InitOutbox /\ [][NextOutbox]_vars

\* The same with worker crashes; a live worker keeps taking steps.
SpecOutboxCrash ==
    /\ InitOutbox
    /\ [][NextOutboxCrash]_vars
    /\ \A w \in Workers : WF_vars(WorkerStep(w))

\* Concurrent activation and verification requests on issued licenses.
SpecActivate == InitActivate /\ [][NextActivate]_vars

\* The same, one request at a time.
SpecActivateSeq == InitActivateSeq /\ [][NextActivate]_vars

\* Concurrent payment notifications on an empty store.
SpecIssue == Init /\ [][NextIssue]_vars

\* The same, one request at a time.
SpecIssueSeq == InitSeq /\ [][NextIssue]_vars

SpecCodec == InitCodec /\ [][NextCodec]_vars

\* Payment notifications and the outbox workers; a worker keeps taking steps.
SpecDelivery ==
    /\ InitDelivery
    /\ [][NextDelivery]_vars
    /\ \A w \in Workers : WF_vars(WorkerStep(w))

\* Every HTTP entry point, concurrently, on an empty store.
SpecApi == Init /\ [][NextApi]_vars

\* Payment requests one at a time, where a webhook_payment call can fail
\* part-way.
SpecIssueFault == InitSeq /\ [][NextIssueFault]_vars

(***************************************************************************)
(* The outbox worker: claims C1, C3, C4, C5.                               *)
(***************************************************************************)

\* Worker w has marked row id 'sending' and has not yet recorded its outcome.
InFlight(w, id) ==
    /\ wpc[w] \in {"send", "record_sent", "record_failed"}
    /\ CurrentRow(w) = id

AllReturned == \A w \in Workers : wpc[w] = "idle" /\ has_returned[w]

EmailIds == {id \in MsgIds : messages[id].method = "email"}

\* C1: while one worker is processing a row (it has marked the row 'sending'
\* and has not committed its outcome), no other worker marks the same row
\* 'sending' or hands it to the sender.
C1_NoOverlappingProcessing ==
    \A id \in MsgIds : \A w1, w2 \in Workers :
        InFlight(w1, id) /\ InFlight(w2, id) => w1 = w2

\* C3: with workers that can crash, a row marked 'sending' does not stay
\* 'sending': a run reaches it again and it becomes 'sent' or 'failed'.
C3_SendingIsRetried ==
    \A id \in 1..NumMsgs :
        (messages[id].status = "sending") ~> (messages[id].status \in Terminal)

\* C4: without crashes, each email row reaches exactly one terminal status
\* and never leaves it: no row is ever found in a second terminal status,
\* no row that reached a terminal status has another status, and when every
\* worker has returned every row is 'sent' or 'failed'.
C4_ExactlyOneTerminalStatus ==
    \A id \in EmailIds :
        /\ Cardinality(reached[id]) <= 1
        /\ reached[id] # {} => messages[id].status \in reached[id]
        /\ AllReturned => messages[id].status \in Terminal

\* C5: a row whose every send attempt fails is handed to the sender at most
\* MAX_ATTEMPTS times, and exactly MAX_ATTEMPTS times once it is 'failed'.
C5_ExactlyMaxAttempts ==
    \A id \in MsgIds :
        id \in always_fails =>
            /\ sender_calls[id] <= MAX_ATTEMPTS
            /\ messages[id].status = "failed" => sender_calls[id] = MAX_ATTEMPTS

(***************************************************************************)
(* Activation and verification: claims C2, C6, C10.                        *)
(***************************************************************************)

\* The terminal ids on the rows of license lid in the activation table acts.
BoundIn(acts, lid) ==
    {acts[a].terminal_id : a \in {b \in 1..Len(acts) : acts[b].license_id = lid}}

BoundTerminals(lid) == BoundIn(activations, lid)

\* C2: under any interleaving of activate requests, all Activation rows of
\* one License carry the same terminal identifier.  (Stated for the rows
\* that carry a non-empty terminal id; the empty id is the case of C6.)
C2_SingleTerminalBinding ==
    \A lid \in LicenseIds :
        Cardinality({t \in BoundTerminals(lid) : Truthy(t)}) <= 1

ConflictResponse ==
    Response("activate", 400, "License already activated on another terminal", NoKey)

\* The license a well-formed activation request names is active and not expired.
NamesValidLicense(r) ==
    /\ DecodeError(r.license) = ""
    /\ LicensesByKey(r.license.license_key) # {}
    /\ \A l \in LicensesByKey(r.license.license_key) :
          ~StatusRejected(licenses[l].status) /\ ~Expired(licenses[l].expires_at)

\* C6: with activate calls executed one at a time on a license that is not
\* revoked and not expired and starts with no Activation rows: a call is
\* let through to the activation logic; there it succeeds when the license
\* has no Activation row or only rows of the calling terminal, and is
\* rejected with the terminal-conflict error when a row of the license
\* carries another terminal.
C6_SequentialBinding ==
    [][\A c \in Clients :
        /\ (pc[c] = "act_fetch" /\ pc'[c] # "act_fetch" /\ NamesValidLicense(req[c]))
              => pc'[c] = "act_last"
        /\ (pc[c] = "act_last" /\ pc'[c] # "act_last")
              => IF BoundTerminals(req[c].license_id) \subseteq {req[c].terminal_id}
                 THEN pc'[c] = "act_write"
                 ELSE pc'[c] = "idle" /\ resp'[c] = ConflictResponse
        /\ (pc[c] = "act_write" /\ pc'[c] # "act_write")
              => /\ resp'[c].code = 200
                 /\ BoundIn(activations', req[c].license_id) =
                       BoundTerminals(req[c].license_id) \cup {req[c].terminal_id}
      ]_vars

\* Every license with key k is revoked (and there is one).
Revoked(k) ==
    /\ LicensesByKey(k) # {}
    /\ \A l \in LicensesByKey(k) : licenses[l].status = "revoked"

\* The handler of slot c ends its request with an error response.
Rejects(c, op) ==
    /\ pc'[c] = "idle"
    /\ resp'[c].op = op
    /\ resp'[c].code >= 400
    /\ resp'[c].key = NoKey

\* C10: a revoked License is rejected by activate_license and by
\* verify_license whatever the terminal identifier (verify also with none),
\* the rejection writes no Activation row and leaves the License as it was,
\* and no step at all changes a revoked License or adds an Activation to it.
C10_RevokedRejected ==
    [][/\ \A c \in Clients :
            /\ (pc[c] = "act_fetch" /\ pc'[c] # "act_fetch"
                    /\ Revoked(req[c].license.license_key))
                  => Rejects(c, "activate") /\ UNCHANGED <<licenses, activations>>
            /\ (pc[c] = "ver_fetch" /\ pc'[c] # "ver_fetch"
                    /\ Revoked(req[c].license_key))
                  => Rejects(c, "verify") /\ UNCHANGED <<licenses, activations>>
       /\ \A l \in LicenseIds :
            licenses[l].status = "revoked"
               => licenses'[l] = licenses[l] /\ ActivationsOf(l)' = ActivationsOf(l)
      ]_vars

\* Both an activation and a verification of a revoked License were rejected.
C10_Witness ==
    /\ \A l \in LicenseIds : licenses[l].status = "revoked"
    /\ \E c, d \in Clients :
          /\ resp[c] = Response("activate", 400, "License is not valid", NoKey)
          /\ resp[d] = Response("verify", 400, "License revoked or expired", NoKey)

(***************************************************************************)
(* Issuance: claims C7, C8, C9.                                            *)
(***************************************************************************)

OrdersOfPair(prov, ref) ==
    {o \in OrderIds : orders[o].provider = prov /\ orders[o].provider_order_id = ref}

LicensesOfPair(prov, ref) ==
    {l \in LicenseIds : licenses[l].order_id \in OrdersOfPair(prov, ref)}

\* The keys that calls of entry point op have returned for the pair.
KeysReturned(op, prov, ref) == {k \in Keys : <<op, prov, ref, k>> \in returned}

\* C7: sequential calls of issue_license_for_order with the same
\* (provider, provider_reference) all return the same license key, and once
\* a call has returned exactly one Order row and exactly one License row
\* exist for the pair, the License carrying the returned key.
C7_IssueIdempotent ==
    \A prov \in Providers, ref \in Refs :
        /\ Cardinality(KeysReturned("check_payment", prov, ref)) <= 1
        /\ KeysReturned("check_payment", prov, ref) # {} =>
              /\ Cardinality(OrdersOfPair(prov, ref)) = 1
              /\ Cardinality(LicensesOfPair(prov, ref)) = 1
              /\ \A l \in LicensesOfPair(prov, ref) :
                    licenses[l].license_key \in KeysReturned("check_payment", prov, ref)

\* Two calls for one pair have returned, the second one the key of the first.
C7_Witness ==
    /\ \A c \in Clients :
          /\ resp[c].op = "check_payment"
          /\ resp[c].detail = "paid"
          /\ resp[c].key # NoKey
    /\ Len(orders) = 1
    /\ Len(licenses) = 1

\* C8: whatever the interleaving of concurrent issuance requests
\* (check_payment's issue_license_for_order and webhook_payment) for one
\* (provider, provider_reference), at most one Order and at most one License
\* exist for the pair, and every caller that got a key got the same key.
C8_AtomicIssuance ==
    \A prov \in Providers, ref \in Refs :
        /\ Cardinality(OrdersOfPair(prov, ref)) <= 1
        /\ Cardinality(LicensesOfPair(prov, ref)) <= 1
        /\ Cardinality(KeysReturned("check_payment", prov, ref)
                          \cup KeysReturned("webhook", prov, ref)) <= 1

\* The keys the earlier notifications for the pair returned.
AlreadyProcessed(prov, ref) ==
    KeysReturned("check_payment", prov, ref) \cup KeysReturned("webhook", prov, ref)

\* C9: a repeated paid notification for a provider reference that was
\* already processed returns the license key of the first notification and
\* creates no Order, License or OutboundMessage row, through webhook_payment
\* as well as through check_payment.
C9_RepeatedNotification ==
    [][\A c \in Clients :
        /\ (pc[c] = "wh_check" /\ pc'[c] # "wh_check"
                /\ AlreadyProcessed(req[c].provider, req[c].reference) # {})
              => /\ pc'[c] = "idle"
                 /\ resp'[c].key \in AlreadyProcessed(req[c].provider, req[c].reference)
                 /\ UNCHANGED <<orders, licenses, messages>>
        /\ (pc[c] = "cp_status" /\ pc'[c] # "cp_status"
                /\ AlreadyProcessed(req[c].provider, req[c].reference) # {}
                /\ ~(pc'[c] = "idle" /\ resp'[c].detail # "paid"))
              => /\ pc'[c] = "idle"
                 /\ resp'[c].key \in AlreadyProcessed(req[c].provider, req[c].reference)
                 /\ UNCHANGED <<orders, licenses, messages>>
      ]_vars

(***************************************************************************)
(* The outbox worker: claims C11, C17, C18.                                *)
(***************************************************************************)

\* The status changes the life cycle of an OutboundMessage allows.
AllowedStatusChanges ==
    {<<"queued", "sending">>, <<"sending", "sent">>,
     <<"sending", "failed">>, <<"sending", "queued">>}

\* C11: every change of a row's status, under any interleaving of workers,
\* is queued->sending, sending->sent, sending->failed or sending->queued;
\* a row that is 'sent' or 'failed' never changes status again.
C11_StatusMovesForward ==
    [][\A id \in MsgIds :
          messages'[id].status # messages[id].status =>
              <<messages[id].status, messages'[id].status>> \in AllowedStatusChanges
      ]_vars

\* C17: a row never becomes 'failed' while its persisted attempts counter
\* is below MAX_ATTEMPTS (a failed delivery below the ceiling returns the
\* row to 'queued').
C17_FailedOnlyAtCeiling ==
    \A id \in MsgIds :
        messages[id].status = "failed" => messages[id].attempts >= MAX_ATTEMPTS

\* C18: each transition of a row into 'sending' is followed by exactly one
\* invocation of the sender before the row's status changes again; so the
\* sender is never invoked for a row more often than the row was put into
\* 'sending' (attempts counts the UPDATEs to 'sending'), and once the row
\* has an outcome the two counts are equal.
C18_OneSendPerSending ==
    \A id \in MsgIds :
        /\ sender_calls[id] <= messages[id].attempts
        /\ messages[id].status \in Terminal => sender_calls[id] = messages[id].attempts

(***************************************************************************)
(* Issuance: claim C12.                                                    *)
(***************************************************************************)

\* C12: no two License rows have the same license_key, whatever the
\* sequence and interleaving of issuance operations, with a key generator
\* that can repeat a value.
C12_LicenseKeysUnique ==
    \A l1, l2 \in LicenseIds :
        licenses[l1].license_key = licenses[l2].license_key => l1 = l2

\* C14: a signed license that nothing altered is turned back by
\* verify_and_extract_license into exactly the payload that was signed.
C14_RoundTrip ==
    (cpc \in {"checked", "presented"} /\ altered = "none") =>
        extracted = Ok(payload_dict)

\* A payload with two fields, one a string of escaped characters, signed
\* and verified.
C14_Witness ==
    /\ cpc = "checked"
    /\ altered = "none"
    /\ extracted.ok
    /\ DOMAIN payload_dict = {LicenseKeyField, Key_a}
    /\ payload_dict[Key_a] = JStr(<<34, 92>>)

\* C15: a signed license with one bit changed is refused by
\* verify_and_extract_license and by activate_license.
C15_OneBitFlipRejected ==
    (altered = "bit" /\ cpc \in {"checked", "presented"}) =>
        /\ ~extracted.ok
        /\ \A c \in Clients :
              pc[c] = "act_fetch" => DecodeError(req[c].license) # ""

\* C13: verify_and_extract_license returns a payload only for a text whose
\* stored signature is the signature of its stored encoded payload;
\* activate_license holds a license key from the payload only for such a
\* text, answers any other text with a 400 that leaves licenses and
\* activations as they were, and no License or Activation row changes
\* while the presented text is not such a text.
C13_FailsClosed ==
    [][/\ (cpc = "signed" /\ cpc' = "checked" /\ extracted'.ok) =>
              SignatureVerified(license_text)
       /\ \A c \in Clients :
             /\ (pc[c] = "idle" /\ pc'[c] = "act_fetch"
                    /\ req'[c].license.license_key # NoKey) =>
                    SignatureVerified(license_text)
             /\ (pc[c] = "act_fetch" /\ pc'[c] # "act_fetch") =>
                    \/ /\ pc'[c] = "idle"
                       /\ resp'[c].code = 400
                       /\ resp'[c].detail \in {"Invalid license format",
                                               "License signature invalid"}
                       /\ UNCHANGED <<licenses, activations>>
                    \/ SignatureVerified(license_text)
       /\ (licenses' # licenses \/ activations' # activations) =>
              SignatureVerified(license_text)
      ]_vars

\* A license whose signature was made over the payload bytes instead of
\* their encoded text: refused by verify_and_extract_license, and by
\* activate_license before any row was written.
C13_Witness ==
    /\ cpc = "presented"
    /\ altered = "signed_bytes"
    /\ ~extracted.ok
    /\ \E c \in Clients :
          /\ resp[c].code = 400
          /\ resp[c].detail = "License signature invalid"
    /\ activations = <<>>
    /\ \A l \in LicenseIds : ~licenses[l].activated

\* C19: the step by which activate_license rejects a request, and every
\* step of the request before it, leaves the licenses and the
\* license_activations tables as they are; a request that has written
\* is not rejected.
C19_RejectedLeavesRows ==
    [][\A c \in Clients :
          /\ (pc[c] # "idle" /\ Rejects(c, "activate")) =>
                 /\ pc[c] \in {"act_fetch", "act_last"}
                 /\ UNCHANGED <<licenses, activations>>
          /\ (pc'[c] \in {"act_fetch", "act_last"} /\ pc'[c] # pc[c]) =>
                 UNCHANGED <<licenses, activations>>
          /\ (pc[c] = "act_write" /\ pc'[c] # "act_write") =>
                 resp'[c].code = 200
      ]_vars

\* A request for a second terminal was rejected on a license that has an
\* Activation row.
C19_Witness ==
    /\ \E c \in Clients : resp[c] = ConflictResponse
    /\ Len(activations) = 1
    /\ \E l \in LicenseIds : licenses[l].activated

\* The first notification carried a phone and an email: its sms row and its
\* email row are in the outbox.
BothQueued ==
    /\ Len(messages) >= 2
    /\ messages[1].method = "sms"
    /\ messages[2].method = "email"
    /\ messages[1].license_id = messages[2].license_id

\* The row is 'sent', or a send_email call for it has failed.
SentUnlessSenderFailed(id) ==
    /\ id \in MsgIds
    /\ messages[id].status = "sent" \/ sender_calls[id] > sender_ok[id]

\* C16: once a notification with both contacts has queued its two rows, the
\* workers bring both rows to 'sent', unless the sender has failed for one.
C16_BothDelivered ==
    BothQueued ~> (SentUnlessSenderFailed(1) /\ SentUnlessSenderFailed(2))

\* The step is the successful return of an activate request of slot c.
ActivateSucceeds(c) ==
    /\ pc[c] # "idle"
    /\ pc'[c] = "idle"
    /\ resp'[c].op = "activate"
    /\ resp'[c].code = 200

\* The step appends one license_activations row, of a license with the key
\* of the request's token and of the request's terminal, sets activated on
\* that license, and changes nothing else in the two tables.
AppendsOneActivation(c) ==
    /\ Len(activations') = Len(activations) + 1
    /\ SubSeq(activations', 1, Len(activations)) = activations
    /\ LET row == activations'[Len(activations')] IN
         /\ row.terminal_id = req[c].terminal_id
         /\ row.license_id \in LicenseIds
         /\ licenses[row.license_id].license_key = req[c].license.license_key
         /\ licenses' = [licenses EXCEPT ![row.license_id].activated = TRUE]

\* C20: a successful activate request appends exactly one Activation row
\* (license, requesting terminal) and sets activated on that license; a step
\* that changes license_activations, or after which a license is activated
\* that was not, is the write of a successful activate request.
C20_OnlyActivateWrites ==
    [][/\ \A c \in Clients : ActivateSucceeds(c) => AppendsOneActivation(c)
       /\ (\/ activations' # activations
           \/ \E l \in DOMAIN licenses' :
                 /\ licenses'[l].activated
                 /\ l \in LicenseIds => ~licenses[l].activated) =>
              \E c \in Clients : pc[c] = "act_write" /\ ActivateSucceeds(c)
      ]_vars

\* A license issued by a payment was activated: one Activation row, and its
\* license is marked activated.
C20_Witness ==
    /\ \E c \in Clients : resp[c].op = "activate" /\ resp[c].code = 200
    /\ Len(activations) = 1
    /\ Len(orders) >= 1
    /\ licenses[activations[1].license_id].activated

\* A step of the verify_license request of slot c.
VerifyStep(c) ==
    /\ pc'[c] # pc[c]
    /\ pc'[c] = "ver_fetch" \/ pc[c] \in {"ver_fetch", "ver_last"}

\* C21: no step of a verify_license request, whatever its arguments and
\* whatever it answers, changes the orders, licenses, license_activations,
\* payments or sms_messages tables.
C21_VerifyReadsOnly ==
    [][\A c \in Clients :
          VerifyStep(c) => UNCHANGED <<orders, licenses, activations, payments, messages>>
      ]_vars

\* verify_license has answered 200 for an activated license and 404 for a
\* key no license has.
C21_Witness ==
    /\ \E c \in Clients : resp[c].op = "verify" /\ resp[c].code = 200
    /\ \E c \in Clients : resp[c].op = "verify" /\ resp[c].code = 404
    /\ Len(activations) = 1

\* The step is the 200 answer of a verify_license request of slot c that
\* supplied a (non-empty) terminal id.
VerifySucceedsWithTerminal(c) ==
    /\ pc[c] \in {"ver_fetch", "ver_last"}
    /\ Truthy(req[c].terminal_id)
    /\ pc'[c] = "idle"
    /\ resp'[c].code = 200

\* C22: verify_license with a terminal id answers 200 only when that
\* terminal id is the terminal of the most recent Activation row of the
\* license the key names.
C22_VerifyMatchesBinding ==
    [][\A c \in Clients :
          VerifySucceedsWithTerminal(c) =>
              \A l \in LicensesByKey(req[c].license_key) :
                  LastActivationTerminals(l) = {req[c].terminal_id}
      ]_vars

\* The details with which activate_license answers a token that fails one
\* of its decoding steps.
CredentialErrors ==
    {DecodeError(Token(e, s, p, k)) :
        e \in BOOLEAN, s \in BOOLEAN, p \in BOOLEAN, k \in {NoKey} \cup Keys} \ {""}

\* C23: any two answers of activate_license to tokens that failed a
\* decoding step (envelope, signature, payload) are the same answer.
C23_OneGenericError ==
    \A c, d \in Clients :
        (/\ resp[c].op = "activate" /\ resp[c].detail \in CredentialErrors
         /\ resp[d].op = "activate" /\ resp[d].detail \in CredentialErrors) =>
            resp[c] = resp[d]

\* A step of the check_payment request of slot c.
CheckPaymentStep(c) ==
    /\ pc'[c] # pc[c]
    /\ pc'[c] = "cp_status" \/ pc[c] \in {"cp_status", "ilo_key", "ilo_commit"}

\* C24: a check_payment request whose provider reports `pending` or
\* `failed` returns that status without a license and leaves orders,
\* licenses and sms_messages as they are; a check_payment step creates an
\* order or a license, or returns a license, only for a request whose
\* provider status is `paid`.
C24_IssuesOnlyWhenPaid ==
    [][\A c \in Clients :
          /\ (pc[c] = "cp_status" /\ pc'[c] = "idle"
                 /\ resp'[c].detail \in ProviderStatuses \ {"paid"}) =>
                 /\ resp'[c].key = NoKey
                 /\ req[c].provider = "paynow" =>
                        payments'[req[c].reference] = resp'[c].detail
                 /\ UNCHANGED <<orders, licenses, messages>>
          /\ pc'[c] \in {"ilo_key", "ilo_commit"} => req'[c].status = "paid"
          /\ (/\ CheckPaymentStep(c)
              /\ \/ orders' # orders
                 \/ licenses' # licenses
                 \/ messages' # messages
                 \/ pc'[c] = "idle" /\ resp'[c].key # NoKey) =>
                 /\ resp'[c].detail = "paid"
                 /\ pc[c] = "cp_status" \/ req[c].status = "paid"
      ]_vars

\* One check_payment was answered `pending` and one was answered with the
\* license of the one order it created.
C24_Witness ==
    /\ \E c \in Clients :
          resp[c] = Response("check_payment", 200, "pending", NoKey)
    /\ \E c \in Clients :
          /\ resp[c].op = "check_payment"
          /\ resp[c].detail = "paid"
          /\ resp[c].key # NoKey
    /\ Len(orders) = 1
    /\ Len(licenses) = 1

\* Whether request r has a contact for the method.
ContactFor(r, method) ==
    IF method = "email" THEN r.customer_email ELSE r.customer_phone

\* In outbox `msgs`, license lid has one queued row for each method request
\* r has a contact for, and none for the other methods.
QueuedPerContact(msgs, lid, r) ==
    \A method \in Methods :
        Cardinality({i \in 1..Len(msgs) :
                        /\ msgs[i].license_id = lid
                        /\ msgs[i].method = method
                        /\ msgs[i].status = "queued"})
            = IF ContactFor(r, method) THEN 1 ELSE 0

LicensesOfOrder(o) == {l \in LicenseIds : licenses[l].order_id = o}

\* C26: whenever no request is in progress every order has exactly one
\* license, and webhook_payment answers "Already processed" only for a
\* reference that has an order with a license.
C26_OrderHasLicense ==
    [][/\ (\A c \in Clients : pc'[c] = "idle") =>
              \A o \in DOMAIN orders' :
                  Cardinality({l \in DOMAIN licenses' : licenses'[l].order_id = o}) = 1
       /\ \A c \in Clients :
             (pc[c] = "wh_check" /\ pc'[c] = "idle"
                /\ resp'[c].detail = "Already processed") =>
                  \E o \in OrdersByReference(req[c].reference) :
                      LicensesOfOrder(o) # {}
      ]_vars

\* C27: a paid notification is answered as a replay exactly when an order
\* with its provider and its reference exists: webhook_payment answers
\* "Already processed" exactly then, and check_payment returns an existing
\* license instead of issuing one exactly when the pair has a license.
C27_KeyedOnPair ==
    [][\A c \in Clients :
          /\ (pc[c] = "wh_check" /\ pc'[c] # "wh_check") =>
                 ((pc'[c] = "idle" /\ resp'[c].detail = "Already processed")
                     <=> OrdersOfPair(req[c].provider, req[c].reference) # {})
          /\ (pc[c] = "cp_status" /\ pc'[c] = "ilo_key") =>
                 LicensesOfPair(req[c].provider, req[c].reference) = {}
          /\ (pc[c] = "cp_status" /\ pc'[c] = "idle" /\ resp'[c].key # NoKey) =>
                 LicensesOfPair(req[c].provider, req[c].reference) # {}
      ]_vars

\* The bare license key string, as webhook_payment returns and mails it,
\* presented as `license`.
RawKey(k) == Token(FALSE, FALSE, FALSE, k)

\* C28: an activate request that presents the raw key of a license is
\* taken as far as one that presents the signed token of that key: it is
\* not turned away as a credential that does not decode.
C28_RawKeyActivates ==
    [][\A c \in Clients, k \in Keys :
          (pc[c] = "act_fetch" /\ pc'[c] # "act_fetch" /\ req[c].license = RawKey(k)) =>
              resp'[c].detail \notin CredentialErrors
      ]_vars

\* The step is the answer of activate_license to a request of slot c that
\* presented a valid token of license l.
ActivateDecides(c, l) ==
    /\ pc[c] = "act_fetch"
    /\ pc'[c] # "act_fetch"
    /\ DecodeError(req[c].license) = ""
    /\ l \in LicensesByKey(req[c].license.license_key)

\* The step rejects the request of slot c with this detail, before the
\* activation history is read, and writes nothing.
RejectsUnread(c, detail) ==
    /\ pc'[c] = "idle"
    /\ resp'[c].code = 400
    /\ resp'[c].detail = detail
    /\ UNCHANGED <<licenses, activations>>

C30_FlagMatchesHistory ==
    \A l \in LicenseIds : licenses[l].activated <=> ActivationsOf(l) # {}

\* Two licenses were issued; one was activated and has its row, the other
\* has neither flag nor row.
C30_Witness ==
    /\ Len(licenses) = 2
    /\ \E l \in LicenseIds : licenses[l].activated /\ ActivationsOf(l) # {}
    /\ \E l \in LicenseIds : ~licenses[l].activated /\ ActivationsOf(l) = {}

\* The step in which worker w commits status='sent' for row id
\* (lines 135-140).
MarksSent(w, id) ==
    /\ wpc[w] = "record_sent"
    /\ wpc'[w] # "record_sent"
    /\ CurrentRow(w) = id
    /\ messages'[id].status = "sent"

\* The step in which a call of worker w returns (line 110 or line 161).
Returns(w) ==
    /\ wpc'[w] = "idle"
    /\ \/ wpc[w] \in {"record_sent", "record_failed"}
       \/ wpc[w] = "idle" /\ has_returned'[w] /\ rows'[w] = <<>>

\* C31: a row is 'sent', or was ever recorded 'sent', only after send_email
\* returned success for it; within one call of process_all_messages the
\* list processed_ids starts empty, gains a row exactly in the step in which
\* that call marks the row 'sent', and is otherwise left alone until it is
\* returned, so the returned list holds exactly the rows the call marked
\* 'sent'.
C31_SentOnlyAfterSuccess ==
    /\ [](\A id \in MsgIds :
            (messages[id].status = "sent" \/ "sent" \in reached[id])
                => sender_ok[id] >= 1)
    /\ [][\A w \in Workers :
            /\ \A id \in MsgIds :
                   MarksSent(w, id)
                       <=> processed_ids'[w] = Append(processed_ids[w], id)
            /\ processed_ids'[w] # processed_ids[w]
                   => \/ \E id \in MsgIds : MarksSent(w, id)
                      \/ wpc[w] = "idle" /\ processed_ids'[w] = <<>>
            /\ Returns(w) =>
                   \A id \in RangeOf(processed_ids'[w]) : "sent" \in reached'[id]
       ]_vars

\* Both workers have returned; one returned a non-empty list of rows that
\* are 'sent' after a successful send_email call, and a row whose sends all
\* failed is 'failed' and in no list.
C31_Witness ==
    /\ AllReturned
    /\ \E w \in Workers :
          /\ processed_ids[w] # <<>>
          /\ \A id \in RangeOf(processed_ids[w]) :
                 messages[id].status = "sent" /\ sender_ok[id] >= 1
    /\ \E id \in MsgIds :
          /\ messages[id].status = "failed"
          /\ \A w \in Workers : id \notin RangeOf(processed_ids[w])
====
